---- MODULE Spec2Model ----
(***************************************************************************)
(* Model of package hint (pkg/proto/hint/hint.go): the hint Type registry, *)
(* Hint.String, Parse with its comma scanner, and Contains.                *)
(*                                                                         *)
(* A Go string is modelled as a sequence of symbols.  Every symbol is one  *)
(* character, except Run, which stands for a run of MaxScanTokenSize - 1   *)
(* bytes 'x' (no comma, no '=', no parenthesis, no white space), so that   *)
(* the token limit of bufio.Scanner is reached with short sequences.       *)
(* Indices are Go's: 0-based, -1 for "not found".                          *)
(***************************************************************************)
EXTENDS Integers, Sequences, FiniteSets, TLC

VARIABLES mode, pc, s, res, h, str, res2, hType, hints, found

vars == <<mode, pc, s, res, h, str, res2, hType, hints, found>>

---------------------------------------------------------------------------
(* Bounds of the model *)

\* most comma-separated tokens in a generated argument list
MaxTokens == 3
\* most inputs of a caller-built Hint
MaxInputs == 2
\* most elements of the collection handed to Contains
MaxHints == 3

---------------------------------------------------------------------------
(* Strings *)

\* bufio.MaxScanTokenSize, the buffer limit of the scanner NewScanner returns
MaxScanTokenSize == 65536

Run == "x*65535"
LongS == "U+017F"

ByteLenOf(c) == IF c = Run THEN MaxScanTokenSize - 1 ELSE IF c = LongS THEN 2 ELSE 1

RECURSIVE ByteLen(_)
ByteLen(t) == IF t = <<>> THEN 0 ELSE ByteLenOf(Head(t)) + ByteLen(Tail(t))

\* unicode.IsSpace, on the symbols of the model
IsSpace(c) == c \in {" ", "\t"}

UpperLetters == <<"A", "C", "D", "E", "F", "I", "L", "M", "N", "O", "R", "S", "T", "U", "V">>
LowerLetters == <<"a", "c", "d", "e", "f", "i", "l", "m", "n", "o", "r", "s", "t", "u", "v">>

ToLower(c) ==
    IF \E i \in DOMAIN UpperLetters : UpperLetters[i] = c
    THEN LowerLetters[CHOOSE i \in DOMAIN UpperLetters : UpperLetters[i] = c]
    ELSE c

\* Unicode simple case folding: the representative of c's fold orbit
Fold(c) ==
    IF \E i \in DOMAIN LowerLetters : LowerLetters[i] = c
    THEN UpperLetters[CHOOSE i \in DOMAIN LowerLetters : LowerLetters[i] = c]
    ELSE IF c = LongS THEN "S" ELSE c

\* strings.EqualFold
EqualFold(a, b) ==
    /\ Len(a) = Len(b)
    /\ \A i \in 1..Len(a) : Fold(a[i]) = Fold(b[i])

\* strings.Index(t, c)
Index(t, c) ==
    IF \E i \in 1..Len(t) : t[i] = c
    THEN (CHOOSE i \in 1..Len(t) : t[i] = c /\ \A j \in 1..(i - 1) : t[j] # c) - 1
    ELSE -1

\* strings.LastIndex(t, c)
LastIndex(t, c) ==
    IF \E i \in 1..Len(t) : t[i] = c
    THEN (CHOOSE i \in 1..Len(t) : t[i] = c /\ \A j \in (i + 1)..Len(t) : t[j] # c) - 1
    ELSE -1

\* the slice expression t[lo:hi]
Slice(t, lo, hi) == SubSeq(t, lo + 1, hi)

RECURSIVE TrimLeft(_)
TrimLeft(t) ==
    IF t = <<>> THEN t
    ELSE IF IsSpace(Head(t)) THEN TrimLeft(Tail(t)) ELSE t

RECURSIVE TrimRight(_)
TrimRight(t) ==
    IF t = <<>> THEN t
    ELSE IF IsSpace(t[Len(t)]) THEN TrimRight(SubSeq(t, 1, Len(t) - 1)) ELSE t

\* strings.TrimSpace
TrimSpace(t) == TrimRight(TrimLeft(t))

\* misc.IsBlank: empty or all white space
IsBlank(t) == \A i \in 1..Len(t) : IsSpace(t[i])

---------------------------------------------------------------------------
(* Type registry *)

TypeMaster == 1
TypeSlave == 2
TypeRoute == 3
TypeFullScan == 4
TypeDirect == 5
TypeTrace == 6

\* the array _hintTypes, indexed 0..6; index 0 holds the empty string
hintTypes ==
    [i \in 0..TypeTrace |->
        CASE i = TypeMaster -> <<"M", "A", "S", "T", "E", "R">>
          [] i = TypeSlave -> <<"S", "L", "A", "V", "E">>
          [] i = TypeRoute -> <<"R", "O", "U", "T", "E">>
          [] i = TypeFullScan -> <<"F", "U", "L", "L", "S", "C", "A", "N">>
          [] i = TypeDirect -> <<"D", "I", "R", "E", "C", "T">>
          [] i = TypeTrace -> <<"T", "R", "A", "C", "E">>
          [] OTHER -> <<>>]

\* Type is uint8
Uint8 == 0..255

\* Type.String: _hintTypes[tp], which panics when tp is out of range
TypeString(tp) ==
    IF tp \in DOMAIN hintTypes
    THEN [panic |-> FALSE, text |-> hintTypes[tp]]
    ELSE [panic |-> TRUE, text |-> <<>>]

---------------------------------------------------------------------------
(* Hint.String *)

\* a nil pointer or slice is the empty sequence; a pointer to x is <<x>>
Nil == <<>>

KeyValue(k, v) == [K |-> k, V |-> v]

Hint(tp, inputs) == [Type |-> tp, Inputs |-> inputs]

\* writeKv with the test of the key left out: the '=' is always written
writeKvAlwaysEq(sb, p) == sb \o p.K \o <<"=">> \o p.V

\* the closure writeKv of Hint.String, appending to the builder sb
writeKv(sb, p) ==
    IF Len(p.K) > 0 THEN sb \o p.K \o <<"=">> \o p.V ELSE sb \o p.V

\* the loop "for i := 1; i < len(h.Inputs); i++" (i is Go's index)
RECURSIVE WriteRest(_, _, _)
WriteRest(sb, inputs, i) ==
    IF i < Len(inputs)
    THEN WriteRest(writeKv(Append(sb, ","), inputs[i + 1]), inputs, i + 1)
    ELSE sb

\* Hint.String whose loop starts at index 0: the first input is written twice
HintStringFromZero(hv) ==
    LET name == TypeString(hv.Type)
    IN  IF name.panic THEN [panic |-> TRUE, text |-> <<>>]
        ELSE IF Len(hv.Inputs) < 1
        THEN [panic |-> FALSE, text |-> name.text \o <<"(", ")">>]
        ELSE [panic |-> FALSE,
              text |-> Append(WriteRest(writeKv(Append(name.text, "("), hv.Inputs[1]),
                                        hv.Inputs, 0), ")")]

\* Hint.String without the branch for no inputs: the bare name is written
HintStringNoParens(hv) ==
    LET name == TypeString(hv.Type)
    IN  IF name.panic THEN [panic |-> TRUE, text |-> <<>>]
        ELSE IF Len(hv.Inputs) < 1
        THEN [panic |-> FALSE, text |-> name.text]
        ELSE [panic |-> FALSE,
              text |-> Append(WriteRest(writeKv(Append(name.text, "("), hv.Inputs[1]),
                                        hv.Inputs, 1), ")")]

\* Hint.String
HintString(hv) ==
    LET name == TypeString(hv.Type)
    IN  IF name.panic THEN [panic |-> TRUE, text |-> <<>>]
        ELSE IF Len(hv.Inputs) < 1
        THEN [panic |-> FALSE, text |-> name.text \o <<"(", ")">>]
        ELSE [panic |-> FALSE,
              text |-> Append(WriteRest(writeKv(Append(name.text, "("), hv.Inputs[1]),
                                        hv.Inputs, 1), ")")]

---------------------------------------------------------------------------
(* Parse *)

SetMin(S) == CHOOSE x \in S : \A y \in S : x <= y

\* the lookup comparing with == instead of EqualFold
LookupTypeCaseSensitive(tpStr) ==
    LET hit == {i \in DOMAIN hintTypes : tpStr = hintTypes[i]}
    IN  IF hit = {} THEN 0 ELSE SetMin(hit)

\* the lookup stopping one entry short of the end of the table
LookupTypeSkipLast(tpStr) ==
    LET hit == {i \in DOMAIN hintTypes : i < TypeTrace /\ EqualFold(tpStr, hintTypes[i])}
    IN  IF hit = {} THEN 0 ELSE SetMin(hit)

\* the lookup accepting a token that only starts with a name
LookupTypePrefix(tpStr) ==
    LET hit == {i \in DOMAIN hintTypes :
                    /\ Len(tpStr) >= Len(hintTypes[i])
                    /\ EqualFold(SubSeq(tpStr, 1, Len(hintTypes[i])), hintTypes[i])
                    /\ (hintTypes[i] = <<>> => tpStr = <<>>)}
    IN  IF hit = {} THEN 0 ELSE SetMin(hit)

\* "for i, v := range _hintTypes { if EqualFold(tpStr, v) { tp = Type(i); break } }":
\* the first index whose name matches, 0 when none does
LookupType(tpStr) ==
    LET hit == {i \in DOMAIN hintTypes : EqualFold(tpStr, hintTypes[i])}
    IN  IF hit = {} THEN 0 ELSE SetMin(hit)

\* scanComma(data, atEOF): advance, token (has = FALSE for a nil token)
scanComma(data, atEOF) ==
    IF atEOF /\ Len(data) = 0
    THEN [advance |-> 0, has |-> FALSE, token |-> <<>>]
    ELSE LET i == Index(data, ",")
         IN  IF i >= 0
             THEN [advance |-> i + 1, has |-> TRUE, token |-> Slice(data, 0, i)]
             ELSE IF atEOF
             THEN [advance |-> Len(data), has |-> TRUE, token |-> data]
             ELSE [advance |-> 0, has |-> FALSE, token |-> <<>>]

\* the longest prefix of whole symbols the scanner's buffer can hold
RECURSIVE Window(_, _)
Window(rest, room) ==
    IF rest = <<>> \/ ByteLenOf(Head(rest)) > room THEN <<>>
    ELSE <<Head(rest)>> \o Window(Tail(rest), room - ByteLenOf(Head(rest)))

\* "for scanner.Scan() { scanner.Text() }" then scanner.Err(): the buffer grows to
\* MaxScanTokenSize bytes while the split function asks for more data; the split
\* function sees atEOF only once the reader is drained, which needs room left in
\* the buffer; a full buffer without a token is ErrTooLong
RECURSIVE ScanAll(_)
ScanAll(rest) ==
    LET full == ByteLen(rest) >= MaxScanTokenSize
        r == scanComma(Window(rest, MaxScanTokenSize), ~full)
    IN  IF r.has
        THEN LET more == ScanAll(SubSeq(rest, r.advance + 1, Len(rest)))
             IN  [tokens |-> <<r.token>> \o more.tokens, err |-> more.err]
        ELSE [tokens |-> <<>>, err |-> full]

\* the loop body that keeps an untrimmed positional value
ParseTokenNoTrim(kvs, text) ==
    LET i == Index(text, "=")
    IN  IF i = -1
        THEN IF IsBlank(text) THEN kvs
             ELSE Append(kvs, KeyValue(<<>>, text))
        ELSE LET k == TrimSpace(Slice(text, 0, i))
                 v == TrimSpace(Slice(text, i + 1, Len(text)))
             IN  IF IsBlank(k) \/ IsBlank(v) THEN kvs
                 ELSE Append(kvs, KeyValue(k, v))

\* the loop body that splits at the last '=' instead of the first
ParseTokenLastEq(kvs, text) ==
    LET i == LastIndex(text, "=")
    IN  IF i = -1
        THEN IF IsBlank(text) THEN kvs
             ELSE Append(kvs, KeyValue(<<>>, TrimSpace(text)))
        ELSE LET k == TrimSpace(Slice(text, 0, i))
                 v == TrimSpace(Slice(text, i + 1, Len(text)))
             IN  IF IsBlank(k) \/ IsBlank(v) THEN kvs
                 ELSE Append(kvs, KeyValue(k, v))

\* the body of the scan loop: kvs after the token text
ParseToken(kvs, text) ==
    LET i == Index(text, "=")
    IN  IF i = -1
        THEN IF IsBlank(text) THEN kvs
             ELSE Append(kvs, KeyValue(<<>>, TrimSpace(text)))
        ELSE LET k == TrimSpace(Slice(text, 0, i))
                 v == TrimSpace(Slice(text, i + 1, Len(text)))
             IN  IF IsBlank(k) \/ IsBlank(v) THEN kvs
                 ELSE Append(kvs, KeyValue(k, v))

RECURSIVE Collect(_, _)
Collect(kvs, tokens) ==
    IF tokens = <<>> THEN kvs
    ELSE Collect(ParseToken(kvs, Head(tokens)), Tail(tokens))

Failed == [ptr |-> Nil, err |-> TRUE, panic |-> FALSE]
Panicked == [ptr |-> Nil, err |-> FALSE, panic |-> TRUE]
Returned(hv) == [ptr |-> <<hv>>, err |-> FALSE, panic |-> FALSE]

\* Parse(s): the returned pointer and error; panic when s[offset+1:end] is out
\* of range
Parse(in) ==
    LET offset == Index(in, "(")
        tpStr == IF offset = -1 THEN in ELSE Slice(in, 0, offset)
        tp == LookupType(tpStr)
        end == LastIndex(in, ")")
    IN  IF tp = 0 THEN Failed
        ELSE IF offset = -1 THEN Returned(Hint(tp, Nil))
        ELSE IF end = -1 THEN Failed
        ELSE IF offset + 1 > end THEN Panicked
        ELSE LET sc == ScanAll(Slice(in, offset + 1, end))
             IN  IF sc.err THEN Failed
                 ELSE Returned(Hint(tp, Collect(Nil, sc.tokens)))

---------------------------------------------------------------------------
(* Contains *)

\* Contains(hType, hints): v.Type on a nil element is a nil dereference
RECURSIVE Contains(_, _)
Contains(tp, hs) ==
    IF hs = <<>> THEN [panic |-> FALSE, value |-> FALSE]
    ELSE IF Head(hs) = Nil THEN [panic |-> TRUE, value |-> FALSE]
    ELSE IF Head(hs)[1].Type = tp THEN [panic |-> FALSE, value |-> TRUE]
    ELSE Contains(tp, Tail(hs))

---------------------------------------------------------------------------
(* Inputs *)

SeqsUpTo(S, n) == UNION {[1..k -> S] : k \in 0..n}

RECURSIVE Join(_)
Join(tokens) ==
    IF tokens = <<>> THEN <<>>
    ELSE IF Len(tokens) = 1 THEN tokens[1]
    ELSE tokens[1] \o <<",">> \o Join(Tail(tokens))

\* every upper/lower-case spelling of a name
RECURSIVE CasePerms(_)
CasePerms(n) ==
    IF n = <<>> THEN {<<>>}
    ELSE {<<c>> \o t : c \in {Head(n), ToLower(Head(n))}, t \in CasePerms(Tail(n))}

ValidTypes == TypeMaster..TypeTrace

AllCasePerms == UNION {CasePerms(hintTypes[i]) : i \in ValidTypes}

\* argument-list tokens: blank, positional, keyed, half-blank, with '=' or
\* parentheses in the value, and at the scanner's limit
Tokens ==
    { <<>>, <<" ">>, <<"a">>, <<" ", "b", " ">>, <<"a", " ", "b">>,
      <<"a", "=", "b">>, <<" ", "a", " ", "=", " ", "b", " ">>,
      <<"=", "b">>, <<"a", "=", " ">>, <<"a", "=", "b", "=", "c">>,
      <<"(", "a", ")">>, <<"a", ")", "=", "(", "b">>,
      <<Run>>, <<Run, "a">>, <<" ", Run>>, <<"k", "=", Run>> }

\* what follows the name: nothing, or '(' and an argument list, closed or not
Rests ==
    {<<>>} \cup
    { <<"(">> \o Join(toks) \o close :
        toks \in SeqsUpTo(Tokens, MaxTokens), close \in {<<>>, <<")">>} }

SmallRests ==
    { <<>>, <<"(">>, <<")">>, <<"(", ")">>, <<"(", "a", ")">>, <<"(", "a">>,
      <<")", "(", "a", ")">>, <<"(", "a", "=", "b", ",", "c", ")">>,
      <<"(", " ", "a", " ", ",", " ", ",", "b", "=", "c", " ", ")">>,
      <<"(", Run, "a", ")">>, <<"(", "a", ")", " ">> }

GoodNames ==
    { hintTypes[TypeMaster], <<"t", "r", "a", "c", "e">>,
      <<"F", "u", "l", "l", LongS, "c", "a", "n">> }

OddNames ==
    { <<>>, <<"B", "O", "G", "U", "S">>, <<" ", "S", "L", "A", "V", "E">>,
      <<"R", "O", "U", "T", "E", " ">>, <<"M", "A", "S", "T", "E">>,
      <<"M", "A", "S", "T", "E", "R", "S">>, <<"D", "I", "R", "E", "C", "T", ")">>,
      <<"x">>, <<Run>> }

ParseInputs ==
    {hintTypes[TypeMaster] \o r : r \in Rests}
    \cup {n \o r : n \in OddNames \cup GoodNames, r \in SmallRests}
    \cup {n \o r : n \in AllCasePerms, r \in {<<>>, <<"(", ")">>}}

\* inputs of caller-built hints, as a parse leaves them and otherwise
KVSamples ==
    { KeyValue(<<>>, <<"a">>), KeyValue(<<"k">>, <<"b">>),
      KeyValue(<<>>, <<"b", " ", "c">>), KeyValue(<<"k">>, <<"a", "=", "b">>),
      KeyValue(<<>>, <<"(", "a", ")">>), KeyValue(<<"k", ")">>, <<"(", "a">>),
      KeyValue(<<>>, <<Run>>),
      KeyValue(<<>>, <<"a", "=", "b">>), KeyValue(<<>>, <<"a", ",", "b">>),
      KeyValue(<<"k">>, <<" ", "a">>), KeyValue(<<>>, <<>>),
      KeyValue(<<"k">>, <<" ">>), KeyValue(<<" ", "k">>, <<"a">>),
      KeyValue(<<"k", "=", "j">>, <<"a">>), KeyValue(<<"k", ",">>, <<"a">>),
      KeyValue(<<>>, <<Run, "a">>), KeyValue(<<"k">>, <<Run>>) }

\* the valid ordinals, the zero variant, the first unnamed ordinal and the largest
TypeSamples == {tp \in Uint8 : tp <= TypeTrace + 1 \/ tp = 255}

BuiltHints ==
    {Hint(tp, in) : tp \in TypeSamples, in \in SeqsUpTo(KVSamples, MaxInputs)}

PtrSamples == {Nil} \cup {<<Hint(tp, Nil)>> : tp \in ValidTypes}

---------------------------------------------------------------------------
(* State machine: one call chain per behaviour *)

NoResult == [ptr |-> Nil, err |-> FALSE, panic |-> FALSE]
NoString == [panic |-> FALSE, text |-> <<>>]
NoBool == [panic |-> FALSE, value |-> FALSE]

\* a caller about to call Parse(s)
InitParse ==
    /\ mode = "parse" /\ pc = "start"
    /\ s \in ParseInputs
    /\ res = NoResult /\ h = Nil /\ str = NoString /\ res2 = NoResult
    /\ hType = 0 /\ hints = <<>> /\ found = NoBool

\* a caller that built a Hint itself and is about to call String
InitRender ==
    /\ mode = "render" /\ pc = "built"
    /\ s = <<>> /\ res = NoResult
    /\ h \in {<<b>> : b \in BuiltHints}
    /\ str = NoString /\ res2 = NoResult
    /\ hType = 0 /\ hints = <<>> /\ found = NoBool

\* a caller about to call Contains(hType, hints)
InitContains ==
    /\ mode = "contains" /\ pc = "call"
    /\ s = <<>> /\ res = NoResult /\ h = Nil /\ str = NoString /\ res2 = NoResult
    /\ hType \in 0..(TypeTrace + 1)
    /\ hints \in SeqsUpTo(PtrSamples, MaxHints)
    /\ found = NoBool

Init == InitParse \/ InitRender \/ InitContains

\* res := Parse(s)
DoParse ==
    /\ pc = "start"
    /\ res' = Parse(s)
    /\ h' = res'.ptr
    /\ pc' = "parsed"
    /\ UNCHANGED <<mode, s, str, res2, hType, hints, found>>

\* str := h.String(), on the Hint Parse returned or the caller built
DoString ==
    /\ pc \in {"parsed", "built"}
    /\ h # Nil
    /\ str' = HintString(h[1])
    /\ pc' = "rendered"
    /\ UNCHANGED <<mode, s, res, h, res2, hType, hints, found>>

\* res2 := Parse(str)
DoReparse ==
    /\ pc = "rendered"
    /\ ~str.panic
    /\ res2' = Parse(str.text)
    /\ pc' = "reparsed"
    /\ UNCHANGED <<mode, s, res, h, str, hType, hints, found>>

\* found := Contains(hType, hints)
DoContains ==
    /\ pc = "call"
    /\ found' = Contains(hType, hints)
    /\ pc' = "returned"
    /\ UNCHANGED <<mode, s, res, h, str, res2, hType, hints>>

Next == DoParse \/ DoString \/ DoReparse \/ DoContains

Spec == Init /\ [][Next]_vars

---------------------------------------------------------------------------
(* Vocabulary of the properties *)

\* the calls of Parse made so far in this behaviour: input and outcome
ParseCalls ==
    (IF mode = "parse" /\ pc # "start" THEN {[in |-> s, out |-> res]} ELSE {})
    \cup (IF pc = "reparsed" THEN {[in |-> str.text, out |-> res2]} ELSE {})

\* String has been called on h[1] and has left str
StringCalled == pc \in {"rendered", "reparsed"}

Has(t, c) == \E i \in 1..Len(t) : t[i] = c

\* the type-name token: all of t without '(', else the text before the first '('
TypeToken(t) == IF Has(t, "(") THEN Slice(t, 0, Index(t, "(")) ELSE t

\* tok is an upper/lower-case spelling of name
IsCasePerm(tok, name) ==
    /\ Len(tok) = Len(name)
    /\ \A j \in 1..Len(tok) : tok[j] \in {name[j], ToLower(name[j])}

\* tok matches name under Unicode simple case folding (U+017F folds to 'S')
MatchesFolded(tok, name) ==
    /\ Len(tok) = Len(name)
    /\ \A j \in 1..Len(tok) :
          tok[j] \in {name[j], ToLower(name[j])} \cup (IF name[j] = "S" THEN {LongS} ELSE {})

NamesAType(tok) == \E i \in ValidTypes : MatchesFolded(tok, hintTypes[i])

\* the text strictly between the first '(' and the last ')'
ArgText(t) == SubSeq(t, Index(t, "(") + 2, LastIndex(t, ")"))

\* t split at every ',' (one token more than there are commas)
RECURSIVE SplitAtCommas(_)
SplitAtCommas(t) ==
    IF Has(t, ",")
    THEN <<SubSeq(t, 1, Index(t, ","))>> \o SplitAtCommas(SubSeq(t, Index(t, ",") + 2, Len(t)))
    ELSE <<t>>

HasLongToken(t) ==
    LET toks == SplitAtCommas(ArgText(t))
    IN  \E i \in 1..Len(toks) : ByteLen(toks[i]) >= MaxScanTokenSize

Blank(t) == \A i \in 1..Len(t) : t[i] \in {" ", "\t"}

\* t without its leading and trailing white space
Trimmed(t) ==
    IF Blank(t) THEN <<>>
    ELSE LET solid == {i \in 1..Len(t) : t[i] \notin {" ", "\t"}}
             lo == CHOOSE i \in solid : \A j \in solid : i <= j
             hi == CHOOSE i \in solid : \A j \in solid : i >= j
         IN  SubSeq(t, lo, hi)

IsTrimmed(t) == t # <<>> /\ t[1] \notin {" ", "\t"} /\ t[Len(t)] \notin {" ", "\t"}

\* the entries one token stands for: none, or one
EntryOf(tok) ==
    IF ~Has(tok, "=")
    THEN IF Blank(tok) THEN <<>> ELSE << [K |-> <<>>, V |-> Trimmed(tok)] >>
    ELSE LET e == Index(tok, "=")
             key == Trimmed(SubSeq(tok, 1, e))
             val == Trimmed(SubSeq(tok, e + 2, Len(tok)))
         IN  IF key = <<>> \/ val = <<>> THEN <<>> ELSE << [K |-> key, V |-> val] >>

RECURSIVE EntriesOf(_)
EntriesOf(toks) ==
    IF toks = <<>> THEN <<>> ELSE EntryOf(Head(toks)) \o EntriesOf(Tail(toks))

\* one input as the canonical text writes it
Written(p) == IF p.K = <<>> THEN p.V ELSE p.K \o <<"=">> \o p.V

\* an input that the canonical text can carry
WellFormedKV(p) ==
    /\ IsTrimmed(p.V)
    /\ ~Has(p.V, ",") /\ ~Has(p.K, ",")
    /\ p.K = <<>> => ~Has(p.V, "=")
    /\ p.K # <<>> => IsTrimmed(p.K) /\ ~Has(p.K, "=")
    /\ ByteLen(Written(p)) < MaxScanTokenSize

---------------------------------------------------------------------------
(* Properties *)

\* C1 as stated: for every caller-built Hint with a valid Type and non-empty
\* Inputs, Parse(h.String()) succeeds and returns the same Type and Inputs.
C1_RoundTripAnyHint ==
    (mode = "render" /\ pc = "reparsed" /\ h[1].Type \in ValidTypes /\ h[1].Inputs # <<>>)
        => /\ res2.ptr # Nil
           /\ res2.ptr[1].Type = h[1].Type
           /\ res2.ptr[1].Inputs = h[1].Inputs

\* C1 amended: the round trip Parse(h.String()) = h holds for every Hint with a
\* valid Type and non-empty Inputs whose every input has a trimmed, non-blank
\* value without ',', a key that is empty (and then no '=' in the value) or
\* trimmed, non-blank and free of ',' and '=', and a written form shorter than
\* the scanner's token limit.
C1_RoundTripWellFormed ==
    (/\ mode = "render" /\ pc = "reparsed"
     /\ h[1].Type \in ValidTypes /\ h[1].Inputs # <<>>
     /\ \A i \in 1..Len(h[1].Inputs) : WellFormedKV(h[1].Inputs[i]))
        => /\ res2.ptr # Nil
           /\ res2.ptr[1].Type = h[1].Type
           /\ res2.ptr[1].Inputs = h[1].Inputs

C1_Witness ==
    /\ mode = "render" /\ pc = "reparsed"
    /\ h[1].Type = TypeRoute /\ Len(h[1].Inputs) = 2
    /\ \A i \in 1..2 : WellFormedKV(h[1].Inputs[i])
    /\ h[1].Inputs[1].K # <<>> /\ Has(h[1].Inputs[1].V, "=")
    /\ h[1].Inputs[2].V = <<Run>>

\* C2 as stated: Parse fails exactly when the type-name token names no type or
\* a '(' has no ')' after it; a failure returns nil.
C2_FailsOnlyOnNameOrParen ==
    \A c \in ParseCalls :
        /\ c.out.err <=> (~NamesAType(TypeToken(c.in)) \/ (Has(c.in, "(") /\ ~Has(c.in, ")")))
        /\ c.out.err => c.out.ptr = Nil

\* C2 amended: Parse fails exactly when the type-name token names no type, or a
\* '(' has no ')', or a comma-separated token of the argument list is at least
\* MaxScanTokenSize bytes long; a failure returns nil, a success a Hint.
C2_FailsExactlyWhen ==
    \A c \in ParseCalls :
        /\ c.out.err <=>
              \/ ~NamesAType(TypeToken(c.in))
              \/ Has(c.in, "(") /\ ~Has(c.in, ")")
              \/ Has(c.in, "(") /\ Has(c.in, ")") /\ HasLongToken(c.in)
        /\ c.out.err => c.out.ptr = Nil
        /\ ~c.out.err => c.out.ptr # Nil

C2_Witness ==
    /\ mode = "parse" /\ pc = "parsed"
    /\ NamesAType(TypeToken(s)) /\ Has(s, "(") /\ Has(s, ")")
    /\ HasLongToken(s)
    /\ res.err

\* C3: every upper/lower-case spelling of a canonical name, bare or followed by
\* "()", parses to that name's Type with no inputs.
C3_BareAndEmptyParens ==
    \A c \in ParseCalls : \A i \in ValidTypes :
        (\/ IsCasePerm(c.in, hintTypes[i])
         \/ /\ Len(c.in) = Len(hintTypes[i]) + 2
            /\ IsCasePerm(SubSeq(c.in, 1, Len(hintTypes[i])), hintTypes[i])
            /\ SubSeq(c.in, Len(hintTypes[i]) + 1, Len(c.in)) = <<"(", ")">>)
        => /\ c.out.ptr # Nil
           /\ c.out.ptr[1].Type = i
           /\ c.out.ptr[1].Inputs = <<>>

C3_Witness ==
    /\ mode = "parse" /\ pc = "parsed"
    /\ s = <<"f", "U", "l", "L", "s", "C", "a", "N", "(", ")">>
    /\ res.ptr # Nil /\ res.ptr[1].Type = TypeFullScan

\* C4: a Hint returned by Parse has a valid Type, and each input has a trimmed,
\* non-blank value and a key that is empty or trimmed, non-blank and without '='.
C4_ParsedHintInvariant ==
    \A c \in ParseCalls :
        c.out.ptr # Nil =>
            /\ c.out.ptr[1].Type # 0
            /\ c.out.ptr[1].Type \in ValidTypes
            /\ \A i \in 1..Len(c.out.ptr[1].Inputs) :
                  LET p == c.out.ptr[1].Inputs[i]
                  IN  /\ IsTrimmed(p.V)
                      /\ p.K = <<>> \/ (IsTrimmed(p.K) /\ ~Has(p.K, "="))

C4_Witness ==
    /\ mode = "parse" /\ pc = "parsed" /\ res.ptr # Nil
    /\ Has(s, " ")
    /\ Len(res.ptr[1].Inputs) = 2
    /\ res.ptr[1].Inputs[1].K = <<>>
    /\ res.ptr[1].Inputs[2].K # <<>>

\* C5: for an accepted input with a '(', Inputs is the text between the first
\* '(' and the last ')' split at every ',', each token mapped in order to no
\* entry (blank or half-blank) or one entry (split at its first '=', trimmed).
C5_InputsAreMappedTokens ==
    \A c \in ParseCalls :
        (c.out.ptr # Nil /\ Has(c.in, "(")) =>
            c.out.ptr[1].Inputs = EntriesOf(SplitAtCommas(ArgText(c.in)))

C5_Witness ==
    /\ mode = "parse" /\ pc = "parsed" /\ res.ptr # Nil
    /\ Len(SplitAtCommas(ArgText(s))) = 3
    /\ Len(res.ptr[1].Inputs) = 2
    /\ Blank(SplitAtCommas(ArgText(s))[2])
    /\ Has(res.ptr[1].Inputs[2].V, "=")

\* C6: String returns a string for every Hint, whatever its Type.
C6_StringIsTotal == StringCalled => ~str.panic

\* C7: for a valid Type, String is the canonical name, '(', the inputs in
\* order written as key=value or value and separated by ',', and ')'; a Hint
\* parsed from a bare name renders as the name followed by "()".
C7_CanonicalForm ==
    (StringCalled /\ h[1].Type \in ValidTypes) =>
        /\ ~str.panic
        /\ str.text = hintTypes[h[1].Type] \o <<"(">>
                        \o Join([i \in 1..Len(h[1].Inputs) |-> Written(h[1].Inputs[i])])
                        \o <<")">>
        /\ (mode = "parse" /\ ~Has(s, "(")) =>
              str.text = hintTypes[h[1].Type] \o <<"(", ")">>

C7_Witness ==
    /\ mode = "render" /\ pc = "rendered"
    /\ h[1].Type = TypeDirect
    /\ Len(h[1].Inputs) = 2
    /\ h[1].Inputs[1].K = <<>> /\ h[1].Inputs[2].K # <<>>

\* C8: Contains never fails, and returns TRUE exactly when some element of hints
\* has Type hType.
C8_ContainsIsTotal ==
    pc = "returned" =>
        /\ ~found.panic
        /\ found.value <=> \E i \in 1..Len(hints) : hints[i] # Nil /\ hints[i][1].Type = hType

\* C9: for every accepted input s, Parse(Parse(s).String()) succeeds and
\* returns the Type and Inputs of Parse(s), and renders to the same text.
C9_NormalizationIdempotent ==
    (mode = "parse" /\ pc = "reparsed") =>
        /\ res2.ptr # Nil
        /\ res2.ptr[1].Type = res.ptr[1].Type
        /\ res2.ptr[1].Inputs = res.ptr[1].Inputs
        /\ HintString(res2.ptr[1]) = str

C9_Witness ==
    /\ mode = "parse" /\ pc = "reparsed"
    /\ s # str.text
    /\ Len(res.ptr[1].Inputs) = 2
    /\ \E i \in 1..2 : Has(res.ptr[1].Inputs[i].V, "=")
    /\ \E i \in 1..2 : Has(res.ptr[1].Inputs[i].V, ")")

\* C10: Parse never panics: once the type name is resolved and a ')' exists,
\* the last ')' lies after the first '('; a ')' before the first '(' makes the
\* call fail.
C10_SliceInBounds ==
    \A c \in ParseCalls :
        /\ ~c.out.panic
        /\ (/\ Has(c.in, "(") /\ Has(c.in, ")")
            /\ LookupType(TypeToken(c.in)) # 0)
              => LastIndex(c.in, ")") > Index(c.in, "(")
        /\ (Has(c.in, "(") /\ Has(c.in, ")") /\ Index(c.in, ")") < Index(c.in, "("))
              => c.out.err

C10_Witness ==
    /\ mode = "parse" /\ pc = "parsed" /\ ~res.err
    /\ Has(s, "(") /\ Index(s, ")") < LastIndex(s, ")")
    /\ Index(s, "(") < LastIndex(s, "(")

====
